---- MODULE Spec2Model ----
(***************************************************************************)
(* A model of bun-sqlite-generate (src/generator.ts): the generator run    *)
(* (main, InterfaceGenerator, generateFiles), the type mapper, the         *)
(* identifier transformer, and the call-time behaviour of the generated    *)
(* insert / getAll / get / update / delete functions.                      *)
(*                                                                         *)
(* Text is modelled as sequences of one-character strings wherever the     *)
(* code takes it apart (split, charAt, toUpperCase); column names, which   *)
(* the code only copies and compares, are plain strings.                   *)
(***************************************************************************)
EXTENDS Integers, Sequences, FiniteSets, TLC

VARIABLES
    pc,          \* position of main(): "main", "construct", "generate", "write", "exit"
    args,        \* process.argv.slice(2)
    tables,      \* rows of sqlite_master WHERE type='table' with their table_info
    loopIdx,     \* index of the for-loop in generateInterfaces / generateFiles
    interfaces,  \* the Map<string, string> built by generateInterfaces
    files,       \* the files this run has written: file name -> content
    error,       \* the call that threw into main's catch block, or "none"
    exitCode,    \* -1 while running, else the process exit code
    rows,        \* call time: the rows of the table in the caller's database
    last,        \* call time: the last call of a generated function and what it did
    sqliteType,  \* type mapper: the argument
    tsType       \* type mapper: the result ("" before the call)

vars == <<pc, args, tables, loopIdx, interfaces, files, error,
          exitCode, rows, last, sqliteType, tsType>>

runVars == <<pc, args, tables, loopIdx, interfaces, files, error, exitCode>>
callVars == <<rows, last>>
mapVars == <<sqliteType, tsType>>

-----------------------------------------------------------------------------
(* Bounds *)

\* longest exhaustively enumerated type string
MaxLen == 4
\* most rows a table holds at call time
MaxRows == 1

-----------------------------------------------------------------------------
(* Characters and strings *)

LowerChars == <<"a","b","c","d","e","f","g","h","i","j","k","l","m",
                "n","o","p","q","r","s","t","u","v","w","x","y","z">>
UpperChars == <<"A","B","C","D","E","F","G","H","I","J","K","L","M",
                "N","O","P","Q","R","S","T","U","V","W","X","Y","Z">>

\* the upper-case letter of every lower-case letter, and the reverse
upperOf ==
    [c \in {LowerChars[k] : k \in DOMAIN LowerChars} |->
        UpperChars[CHOOSE k \in DOMAIN LowerChars : LowerChars[k] = c]]
lowerOf ==
    [c \in {UpperChars[k] : k \in DOMAIN UpperChars} |->
        LowerChars[CHOOSE k \in DOMAIN UpperChars : UpperChars[k] = c]]

\* String.prototype.toUpperCase on one character
ToUpperChar(c) == IF c \in DOMAIN upperOf THEN upperOf[c] ELSE c

\* String.prototype.toLowerCase on one character
ToLowerChar(c) == IF c \in DOMAIN lowerOf THEN lowerOf[c] ELSE c

toUpperCase(s) == [k \in 1..Len(s) |-> ToUpperChar(s[k])]
toLowerCase(s) == [k \in 1..Len(s) |-> ToLowerChar(s[k])]

\* String.prototype.split(sep) for a one-character separator: the segments
\* between the separators, always at least one (possibly empty) segment.
RECURSIVE split(_, _)
split(s, sep) ==
    IF \E k \in 1..Len(s) : s[k] = sep
    THEN LET k == CHOOSE j \in 1..Len(s) : s[j] = sep /\ \A m \in 1..(j-1) : s[m] # sep
         IN  <<SubSeq(s, 1, k-1)>> \o split(SubSeq(s, k+1, Len(s)), sep)
    ELSE <<s>>

\* Array.prototype.join('') of a sequence of strings
RECURSIVE joinEmpty(_)
joinEmpty(ss) == IF ss = <<>> THEN <<>> ELSE Head(ss) \o joinEmpty(Tail(ss))

\* word.charAt(0).toUpperCase() + word.slice(1).toLowerCase()
capitalize(word) ==
    IF word = <<>> THEN <<>>
    ELSE <<ToUpperChar(word[1])>> \o toLowerCase(SubSeq(word, 2, Len(word)))

\* InterfaceGenerator.pascalCase
pascalCase(str) ==
    LET words == split(str, "_")
    IN  joinEmpty([k \in 1..Len(words) |-> capitalize(words[k])])

-----------------------------------------------------------------------------
(* Type mapper *)

T_INTEGER == <<"I","N","T","E","G","E","R">>
T_REAL == <<"R","E","A","L">>
T_TEXT == <<"T","E","X","T">>
T_BLOB == <<"B","L","O","B">>
T_BOOLEAN == <<"B","O","O","L","E","A","N">>
T_TIMESTAMP == <<"T","I","M","E","S","T","A","M","P">>
T_VARCHAR == <<"V","A","R","C","H","A","R">>
T_JSONB == <<"J","S","O","N","B">>
T_VARCHAR_255 == <<"V","A","R","C","H","A","R","(","2","5","5",")">>

\* a typeMap that also knows VARCHAR
typeMapWithVarchar ==
    (T_INTEGER :> "number | bigint") @@ (T_REAL :> "number") @@ (T_TEXT :> "string")
    @@ (T_BLOB :> "Uint8Array") @@ (T_BOOLEAN :> "number") @@ (T_TIMESTAMP :> "string")
    @@ (T_VARCHAR :> "string")

\* the typeMap object literal: its own properties
typeMap ==
    (T_INTEGER :> "number | bigint") @@ (T_REAL :> "number") @@ (T_TEXT :> "string")
    @@ (T_BLOB :> "Uint8Array") @@ (T_BOOLEAN :> "number") @@ (T_TIMESTAMP :> "string")

\* property names every object literal inherits from Object.prototype; a
\* lookup of one of them yields a (truthy) function, not undefined
P_CONSTRUCTOR == <<"c","o","n","s","t","r","u","c","t","o","r">>
P_TOSTRING == <<"t","o","S","t","r","i","n","g">>
P_VALUEOF == <<"v","a","l","u","e","O","f">>
P_PROTO == <<"_","_","p","r","o","t","o","_","_">>
ObjectPrototypeKeys ==
    { P_CONSTRUCTOR, P_TOSTRING, P_VALUEOF, P_PROTO,
      <<"h","a","s","O","w","n","P","r","o","p","e","r","t","y">>,
      <<"i","s","P","r","o","t","o","t","y","p","e","O","f">>,
      <<"p","r","o","p","e","r","t","y","I","s","E","n","u","m","e","r","a","b","l","e">>,
      <<"t","o","L","o","c","a","l","e","S","t","r","i","n","g">>,
      <<"_","_","d","e","f","i","n","e","G","e","t","t","e","r","_","_">>,
      <<"_","_","d","e","f","i","n","e","S","e","t","t","e","r","_","_">>,
      <<"_","_","l","o","o","k","u","p","G","e","t","t","e","r","_","_">>,
      <<"_","_","l","o","o","k","u","p","S","e","t","t","e","r","_","_">> }

\* typeMap[key]: own property, inherited property, or undefined
typeMapLookup(key) ==
    IF key \in DOMAIN typeMap THEN typeMap[key]
    ELSE IF key \in ObjectPrototypeKeys THEN "[inherited]"
    ELSE "undefined"

\* a mapper that looks the base type up as written, without toUpperCase
mapWithoutUpperCase(t) ==
    LET baseType == split(t, "(")[1]
        found == typeMapLookup(baseType)
    IN  IF found = "undefined" THEN "any" ELSE found

\* InterfaceGenerator.mapSqliteTypeToTypescript
mapSqliteTypeToTypescript(t) ==
    LET baseType == toUpperCase(split(t, "(")[1])
        found == typeMapLookup(baseType)
    IN  IF found = "undefined" THEN "any" ELSE found

-----------------------------------------------------------------------------
(* The catalog: tables and their columns (PRAGMA table_info rows) *)

N_A_B == <<"a","_","b">>
N_A__B == <<"a","_","_","b">>
TableNames == {N_A_B, N_A__B}

\* declared column names and declared types, by position (cid + 1)
ColNames == <<"a", "b", "c">>
ColTypes == << T_INTEGER,
               <<"t","e","x","t">>,
               T_VARCHAR_255 >>

\* primary-key ordinals of n columns: the non-zero ones are 1..k, each once
PkAssignments(n) ==
    { f \in [1..n -> 0..n] :
        LET k == Cardinality({j \in 1..n : f[j] > 0})
        IN  \A o \in 1..k : Cardinality({j \in 1..n : f[j] = o}) = 1 }

\* ColumnInfo rows of a table with n columns, ordered by cid
ColumnLists(n) ==
    { [j \in 1..n |-> [cid |-> j - 1, name |-> ColNames[j], type |-> ColTypes[j],
                       notnull |-> nn[j], pk |-> pk[j]]] :
        nn \in [1..n -> {0, 1}], pk \in PkAssignments(n) }

AllColumnLists == UNION { ColumnLists(n) : n \in 1..Len(ColNames) }

\* sequences of distinct table names, in catalog enumeration order
NameLists ==
    {<<>>} \cup { <<n>> : n \in TableNames }
    \cup { <<n, m>> : <<n, m>> \in { p \in TableNames \X TableNames : p[1] # p[2] } }

\* the catalog holding the tables named ns[j] with the columns cs[j]
catalogOf(ns, cs) == [j \in 1..Len(ns) |-> [name |-> ns[j], columns |-> cs[j]]]

-----------------------------------------------------------------------------
(* Sequence helpers used by the generator and by the generated code;        *)
(* Array.prototype.filter is SelectSeq.                                    *)

\* Array.prototype.includes
includes(s, x) == \E k \in DOMAIN s : s[k] = x

\* insertion of x into a sequence sorted by pk (stable: after equal keys)
RECURSIVE insertByPk(_, _)
insertByPk(s, x) ==
    IF s = <<>> THEN <<x>>
    ELSE IF x.pk < Head(s).pk THEN <<x>> \o s
    ELSE <<Head(s)>> \o insertByPk(Tail(s), x)

\* Array.prototype.sort((a, b) => a.pk - b.pk), a stable sort
RECURSIVE sortByPk(_)
sortByPk(s) ==
    IF s = <<>> THEN <<>>
    ELSE insertByPk(sortByPk(SubSeq(s, 1, Len(s) - 1)), s[Len(s)])

names(cols) == [k \in DOMAIN cols |-> cols[k].name]

-----------------------------------------------------------------------------
(* generateInterfaces: the unit generated for one table *)

\* primary keys taken from the second key column on (col.pk > 1)
primaryKeysAboveOne(columns) ==
    LET isPk(col) == col.pk > 1
    IN  sortByPk(SelectSeq(columns, isPk))

\* primary keys filtered but left in declaration order (no sort)
primaryKeysUnsorted(columns) ==
    LET isPk(col) == col.pk > 0
    IN  SelectSeq(columns, isPk)

\* columns.filter(col => col.pk > 0).sort((a, b) => a.pk - b.pk)
primaryKeys(columns) ==
    LET isPk(col) == col.pk > 0
    IN  sortByPk(SelectSeq(columns, isPk))

\* an interface line whose nullability looks at NOT NULL alone
interfaceFieldNotNullOnly(column) ==
    [name |-> column.name,
     type |-> mapSqliteTypeToTypescript(column.type),
     nullable |-> ~(column.notnull # 0)]

\* one line of the interface: `name: type` with or without ` | null`
interfaceField(column) ==
    [name |-> column.name,
     type |-> mapSqliteTypeToTypescript(column.type),
     nullable |-> ~(column.notnull # 0 \/ column.pk # 0)]

\* `pk.name: mapped type` for every primary-key column, joined by ', '
pkParams(pks) ==
    [k \in DOMAIN pks |-> [name |-> pks[k].name,
                            type |-> mapSqliteTypeToTypescript(pks[k].type)]]

\* `pk.name = ?` for every primary-key column, joined by ' AND '
pkWhere(pks) == names(pks)

insertFunction(table, columns) ==
    [kind |-> "insert", name |-> <<"insert", pascalCase(table.name)>>,
     table |-> table.name, columns |-> names(columns)]

getAllFunction(table) ==
    [kind |-> "getAll", name |-> <<"getAll", pascalCase(table.name)>>,
     table |-> table.name]

getFunction(table, pks) ==
    [kind |-> "get", name |-> <<"get", pascalCase(table.name)>>,
     table |-> table.name, params |-> pkParams(pks), where |-> pkWhere(pks),
     args |-> names(pks)]

updateFunction(table, columns, pks) ==
    [kind |-> "update", name |-> <<"update", pascalCase(table.name)>>,
     table |-> table.name, params |-> pkParams(pks), columns |-> names(columns),
     pkNames |-> names(pks), getArgs |-> names(pks), where |-> pkWhere(pks),
     keyArgs |-> names(pks)]

deleteFunction(table, pks) ==
    [kind |-> "delete", name |-> <<"delete", pascalCase(table.name)>>,
     table |-> table.name, params |-> pkParams(pks), where |-> pkWhere(pks),
     args |-> names(pks)]

\* the body of the for-loop of generateInterfaces: interfaceContent
interfaceContent(table) ==
    LET columns == table.columns
        pks == primaryKeys(columns)
    IN  [typeName |-> pascalCase(table.name),
         fields |-> [k \in DOMAIN columns |-> interfaceField(columns[k])],
         functions |->
            <<insertFunction(table, columns), getAllFunction(table)>>
            \o (IF Len(pks) > 0
                THEN <<getFunction(table, pks), updateFunction(table, columns, pks),
                       deleteFunction(table, pks)>>
                ELSE <<>>)]

-----------------------------------------------------------------------------
(* Map<string, string>: entries in insertion order *)

mapHas(m, key) == \E k \in DOMAIN m : m[k][1] = key

mapGet(m, key) == m[CHOOSE k \in DOMAIN m : m[k][1] = key][2]

\* Map.prototype.set: an existing key keeps its place and gets the new value
mapSet(m, key, value) ==
    IF mapHas(m, key)
    THEN [k \in DOMAIN m |-> IF m[k][1] = key THEN <<key, value>> ELSE m[k]]
    ELSE Append(m, <<key, value>>)

mapKeys(m) == [k \in DOMAIN m |-> m[k][1]]

-----------------------------------------------------------------------------
(* Command line *)

A_HELP == <<"-","-","h","e","l","p">>
A_SCHEMA_FILE == <<"-","-","s","c","h","e","m","a","-","f","i","l","e">>
A_OUTPUT_DIR == <<"-","-","o","u","t","p","u","t","-","d","i","r">>
K_HELP == <<"h","e","l","p">>
K_SCHEMA_FILE == <<"s","c","h","e","m","a","-","f","i","l","e">>
K_OUTPUT_DIR == <<"o","u","t","p","u","t","-","d","i","r">>
V_TRUE == <<"t","r","u","e">>
P_SCHEMA == <<"s",".","s","q","l">>
P_OUT == <<"o","u","t">>

\* the command lines the model runs main() on
ArgVectors ==
    { <<>>,
      <<A_HELP>>,
      <<A_SCHEMA_FILE, P_SCHEMA>>,
      <<A_SCHEMA_FILE, P_SCHEMA, A_OUTPUT_DIR, P_OUT>>,
      <<A_OUTPUT_DIR, P_OUT, A_SCHEMA_FILE, P_SCHEMA, A_HELP>> }

\* String.prototype.startsWith('--')
startsWithDashes(s) == Len(s) >= 2 /\ s[1] = "-" /\ s[2] = "-"

\* the for-loop of parseArgs from (1-based) index k with parsedArgs so far
RECURSIVE parseArgsFrom(_, _, _)
parseArgsFrom(a, k, parsed) ==
    IF k > Len(a) THEN parsed
    ELSE IF a[k] = A_HELP THEN (K_HELP :> V_TRUE) @@ parsed
    ELSE IF startsWithDashes(a[k]) /\ k + 1 <= Len(a)
         THEN parseArgsFrom(a, k + 2, (SubSeq(a[k], 3, Len(a[k])) :> a[k + 1]) @@ parsed)
    ELSE parseArgsFrom(a, k + 1, parsed)

parseArgs(a) == parseArgsFrom(a, 1, <<>>)

\* args[key] as a condition: present and not the empty string
truthyArg(parsed, key) == key \in DOMAIN parsed /\ parsed[key] # <<>>

-----------------------------------------------------------------------------
(* The output directory *)

TS_EXT == <<".","t","s">>
INDEX_TS == <<"i","n","d","e","x",".","t","s">>

\* writeFileSync(join(outputDir, fileName), content)
writeFileSync(fs, fileName, content) ==
    [f \in DOMAIN fs \cup {fileName} |-> IF f = fileName THEN content ELSE fs[f]]

\* a file named after the type instead of the table
fileNameOfTypeName(tableName) == pascalCase(tableName) \o TS_EXT

\* the table's file name in generateFiles
fileNameOf(tableName) == tableName \o TS_EXT

\* the content of index.ts: one `export * from './<table>'` per key of the Map
indexContent(m) == [exports |-> mapKeys(m)]

NoFiles == [f \in {} |-> <<>>]

NoCall == [fn |-> "none", keys |-> <<>>, rec |-> <<>>, before |-> <<>>,
           statements |-> <<>>, result |-> [kind |-> "void", value |-> <<>>]]

-----------------------------------------------------------------------------
(* main(): one run of the generator *)

Init ==
    /\ pc = "main"
    /\ args \in ArgVectors
    /\ tables = <<>>
    /\ loopIdx = 0
    /\ interfaces = <<>>
    /\ files = NoFiles
    /\ error = "none"
    /\ exitCode = -1
    /\ rows = <<>>
    /\ last = NoCall
    /\ sqliteType = <<>>
    /\ tsType = ""

\* if (args['help']) { showHelp(); process.exit(0) }
MainHelp ==
    /\ pc = "main"
    /\ truthyArg(parseArgs(args), K_HELP)
    /\ pc' = "exit"
    /\ exitCode' = 0
    /\ UNCHANGED <<args, tables, loopIdx, interfaces, files, error, callVars, mapVars>>

\* if (!args['schema-file'] || !args['output-dir']) { ...; process.exit(1) }
MainMissingArgs ==
    /\ pc = "main"
    /\ ~truthyArg(parseArgs(args), K_HELP)
    /\ ~truthyArg(parseArgs(args), K_SCHEMA_FILE) \/ ~truthyArg(parseArgs(args), K_OUTPUT_DIR)
    /\ pc' = "exit"
    /\ exitCode' = 1
    /\ UNCHANGED <<args, tables, loopIdx, interfaces, files, error, callVars, mapVars>>

\* the arguments are complete: main enters its try block
MainTry ==
    /\ pc = "main"
    /\ ~truthyArg(parseArgs(args), K_HELP)
    /\ truthyArg(parseArgs(args), K_SCHEMA_FILE)
    /\ truthyArg(parseArgs(args), K_OUTPUT_DIR)
    /\ pc' = "construct"
    /\ UNCHANGED <<args, tables, loopIdx, interfaces, files, error, exitCode, callVars, mapVars>>

\* new InterfaceGenerator(schemaPath): the schema loads; the catalog now
\* holds its tables, and generateInterfaces has run its first query
Construct ==
    /\ pc = "construct"
    /\ \E ns \in NameLists : \E cs \in [1..Len(ns) -> AllColumnLists] :
          tables' = catalogOf(ns, cs)
    /\ pc' = "generate"
    /\ loopIdx' = 1
    /\ interfaces' = <<>>
    /\ UNCHANGED <<args, files, error, exitCode, callVars, mapVars>>

\* a constructor that swallows the fault and leaves an empty catalog
ConstructThrowsSwallowed ==
    /\ pc = "construct"
    /\ \E e \in {"readFileSync", "db.exec"} : error' = e
    /\ tables' = <<>>
    /\ pc' = "generate"
    /\ loopIdx' = 1
    /\ UNCHANGED <<args, interfaces, files, exitCode, callVars, mapVars>>

\* readFileSync or db.exec(schema) throws: the catch block of main exits 1
ConstructThrows ==
    /\ pc = "construct"
    /\ \E e \in {"readFileSync", "db.exec"} : error' = e
    /\ pc' = "exit"
    /\ exitCode' = 1
    /\ UNCHANGED <<args, tables, loopIdx, interfaces, files, callVars, mapVars>>

\* one iteration of `for (const table of tables)` in generateInterfaces
GenerateTable ==
    /\ pc = "generate"
    /\ loopIdx <= Len(tables)
    /\ interfaces' = mapSet(interfaces, tables[loopIdx].name, interfaceContent(tables[loopIdx]))
    /\ loopIdx' = loopIdx + 1
    /\ UNCHANGED <<pc, args, tables, files, error, exitCode, callVars, mapVars>>

\* a catalog query of generateInterfaces throws
GenerateThrows ==
    /\ pc = "generate"
    /\ error' = "db.query"
    /\ pc' = "exit"
    /\ exitCode' = 1
    /\ UNCHANGED <<args, tables, loopIdx, interfaces, files, callVars, mapVars>>

\* generateInterfaces returns; generateFiles creates the directory if absent
Mkdir ==
    /\ pc = "generate"
    /\ loopIdx > Len(tables)
    /\ pc' = "write"
    /\ loopIdx' = 1
    /\ UNCHANGED <<args, tables, interfaces, files, error, exitCode, callVars, mapVars>>

\* mkdirSync throws
MkdirThrows ==
    /\ pc = "generate"
    /\ loopIdx > Len(tables)
    /\ error' = "mkdirSync"
    /\ pc' = "exit"
    /\ exitCode' = 1
    /\ UNCHANGED <<args, tables, loopIdx, interfaces, files, callVars, mapVars>>

\* one iteration of `for (const [tableName, interfaceContent] of interfaces)`
WriteFile ==
    /\ pc = "write"
    /\ loopIdx <= Len(interfaces)
    /\ files' = writeFileSync(files, fileNameOf(interfaces[loopIdx][1]), interfaces[loopIdx][2])
    /\ loopIdx' = loopIdx + 1
    /\ UNCHANGED <<pc, args, tables, interfaces, error, exitCode, callVars, mapVars>>

\* the manifest is written and main returns
WriteIndex ==
    /\ pc = "write"
    /\ loopIdx > Len(interfaces)
    /\ files' = writeFileSync(files, INDEX_TS, indexContent(interfaces))
    /\ pc' = "exit"
    /\ exitCode' = 0
    /\ UNCHANGED <<args, tables, loopIdx, interfaces, error, callVars, mapVars>>

\* writeFileSync throws, for a table's file or for index.ts
WriteThrows ==
    /\ pc = "write"
    /\ error' = "writeFileSync"
    /\ pc' = "exit"
    /\ exitCode' = 1
    /\ UNCHANGED <<args, tables, loopIdx, interfaces, files, callVars, mapVars>>

Next ==
    \/ MainHelp
    \/ MainMissingArgs
    \/ MainTry
    \/ Construct
    \/ ConstructThrows
    \/ GenerateTable
    \/ GenerateThrows
    \/ Mkdir
    \/ MkdirThrows
    \/ WriteFile
    \/ WriteIndex
    \/ WriteThrows

Spec == Init /\ [][Next]_vars

-----------------------------------------------------------------------------
(* Call time: the caller's database *)

undefined == "undefined"
null == "null"
\* values a caller passes for a key parameter
KeyValues == {"1", "2"}
\* what a partial record holds for a column: a value, null, or nothing
FieldValues == {"1", null, undefined}

\* a statement as prepared: its text, taken apart
selectAllSql(tableName) ==
    [op |-> "SELECT", table |-> tableName, columns |-> <<>>, where |-> <<>>, placeholders |-> 0]
selectSql(tableName, where) ==
    [op |-> "SELECT", table |-> tableName, columns |-> <<>>, where |-> where,
     placeholders |-> Len(where)]
insertSql(tableName, insertColumns) ==
    [op |-> "INSERT", table |-> tableName, columns |-> insertColumns, where |-> <<>>,
     placeholders |-> Len(insertColumns)]
updateSql(tableName, updateColumns, where) ==
    [op |-> "UPDATE", table |-> tableName, columns |-> updateColumns, where |-> where,
     placeholders |-> Len(updateColumns) + Len(where)]
deleteSql(tableName, where) ==
    [op |-> "DELETE", table |-> tableName, columns |-> <<>>, where |-> where,
     placeholders |-> Len(where)]

\* results of a call: kind is "row", "null", "rows", "void" or "throw"
rowResult(r) == [kind |-> "row", value |-> <<r>>]
nullResult == [kind |-> "null", value |-> <<>>]
rowsResult(rs) == [kind |-> "rows", value |-> rs]
voidResult == [kind |-> "void", value |-> <<>>]
throwResult == [kind |-> "throw", value |-> <<>>]

\* WHERE k1 = ? AND k2 = ? ...: a NULL never compares equal
rowMatches(row, where, bound) ==
    \A k \in DOMAIN where : row[where[k]] # null /\ row[where[k]] = bound[k]

matching(rs, where, bound) ==
    LET m(row) == rowMatches(row, where, bound)
    IN  SelectSeq(rs, m)

\* the table declares a single INTEGER PRIMARY KEY column (an alias of the rowid)
rowidAlias(table) ==
    LET pks == primaryKeys(table.columns)
    IN  IF Len(pks) = 1 /\ toUpperCase(pks[1].type) = T_INTEGER THEN pks[1].name ELSE ""

\* a value is left for the rowid alias column
freshKeys(rs, col) == { v \in KeyValues : \A k \in DOMAIN rs : rs[k][col] # v }

\* the row an INSERT stores: omitted columns are NULL, a NULL rowid alias is assigned
storedRow(table, rs, cols, bound) ==
    LET given == [c \in {table.columns[k].name : k \in DOMAIN table.columns} |->
                    IF includes(cols, c)
                    THEN bound[CHOOSE k \in DOMAIN cols : cols[k] = c]
                    ELSE null]
        alias == rowidAlias(table)
    IN  IF alias # "" /\ given[alias] = null /\ freshKeys(rs, alias) # {}
        THEN [given EXCEPT ![alias] = CHOOSE v \in freshKeys(rs, alias) :
                                        \A w \in freshKeys(rs, alias) : v = w \/ v = "1"]
        ELSE given

\* NOT NULL columns hold a value
notNullOk(table, row) ==
    \A k \in DOMAIN table.columns :
        table.columns[k].notnull # 0 => row[table.columns[k].name] # null

\* no other row has the same (all non-NULL) primary key
pkUniqueOk(table, rs, row) ==
    LET pkn == names(primaryKeys(table.columns))
    IN  pkn = <<>> \/ \A k \in DOMAIN rs :
            ~rowMatches(rs[k], pkn, [j \in DOMAIN pkn |-> row[pkn[j]]])

\* db.prepare(sql).get(bound) / .run(bound) / .all(): <<rows after, result>>
execute(table, rs, sql, bound) ==
    CASE sql.op = "INSERT" ->
            IF sql.columns = <<>> THEN <<rs, throwResult>>
            ELSE LET row == storedRow(table, rs, sql.columns, bound)
                 IN  IF notNullOk(table, row) /\ pkUniqueOk(table, rs, row)
                     THEN <<Append(rs, row), rowResult(row)>>
                     ELSE <<rs, throwResult>>
      [] sql.op = "SELECT" /\ sql.where = <<>> -> <<rs, rowsResult(rs)>>
      [] sql.op = "SELECT" /\ sql.where # <<>> ->
            LET hit == matching(rs, sql.where, bound)
            IN  <<rs, IF hit = <<>> THEN nullResult ELSE rowResult(hit[1])>>
      [] sql.op = "UPDATE" ->
            LET nset == Len(sql.columns)
                wbound == [k \in DOMAIN sql.where |-> bound[nset + k]]
                upd(row) == [c \in DOMAIN row |->
                               IF includes(sql.columns, c)
                               THEN bound[CHOOSE k \in DOMAIN sql.columns : sql.columns[k] = c]
                               ELSE row[c]]
                after == [k \in DOMAIN rs |->
                            IF rowMatches(rs[k], sql.where, wbound) THEN upd(rs[k]) ELSE rs[k]]
                hit == matching(rs, sql.where, wbound)
            IN  IF hit = <<>> THEN <<rs, nullResult>>
                ELSE IF \A k \in DOMAIN after : notNullOk(table, after[k])
                     THEN <<after, rowResult(upd(hit[1]))>>
                     ELSE <<rs, throwResult>>
      [] sql.op = "DELETE" ->
            LET keep(row) == ~rowMatches(row, sql.where, bound)
            IN  <<SelectSeq(rs, keep), voidResult>>

-----------------------------------------------------------------------------
(* Call time: the generated functions, as the unit's text defines them *)

\* what a call did: <<rows after, statements issued, result>>
\* each statement issued is [sql, bound]

\* the values of the named parameters in a call with actual key values `keys`
argValues(params, argNames, keys) ==
    [k \in DOMAIN argNames |->
        keys[CHOOSE j \in DOMAIN params : params[j].name = argNames[k]]]

\* an insert that also leaves out the columns given as null
callInsertSkippingNull(fn, table, rs, rec) ==
    LET present(col) == rec[col] # undefined /\ rec[col] # null
        insertColumns == SelectSeq(fn.columns, present)
        insertValues == [k \in DOMAIN insertColumns |-> rec[insertColumns[k]]]
        sql == insertSql(fn.table, insertColumns)
        done == execute(table, rs, sql, insertValues)
    IN  <<done[1], <<[sql |-> sql, bound |-> insertValues]>>, done[2]>>

\* insert<Type>(db, record)
callInsert(fn, table, rs, rec) ==
    LET present(col) == rec[col] # undefined
        insertColumns == SelectSeq(fn.columns, present)
        insertValues == [k \in DOMAIN insertColumns |-> rec[insertColumns[k]]]
        sql == insertSql(fn.table, insertColumns)
        done == execute(table, rs, sql, insertValues)
    IN  <<done[1], <<[sql |-> sql, bound |-> insertValues]>>, done[2]>>

\* getAll<Type>(db)
callGetAll(fn, table, rs) ==
    LET sql == selectAllSql(fn.table)
        done == execute(table, rs, sql, <<>>)
    IN  <<done[1], <<[sql |-> sql, bound |-> <<>>]>>, done[2]>>

\* get<Type>(db, ...keys)
callGet(fn, table, rs, keys) ==
    LET sql == selectSql(fn.table, fn.where)
        bound == argValues(fn.params, fn.args, keys)
        done == execute(table, rs, sql, bound)
    IN  <<done[1], <<[sql |-> sql, bound |-> bound]>>, done[2]>>

\* an update whose filter does not exclude the primary-key columns
callUpdateKeepingKeys(fn, getFn, table, rs, keys, rec) ==
    LET eligible(col) == rec[col] # undefined
        updateColumns == SelectSeq(fn.columns, eligible)
        updateValues == [k \in DOMAIN updateColumns |-> rec[updateColumns[k]]]
        sql == updateSql(fn.table, updateColumns, fn.where)
        bound == updateValues \o argValues(fn.params, fn.keyArgs, keys)
        done == execute(table, rs, sql, bound)
    IN  IF Len(updateColumns) = 0
        THEN callGet(getFn, table, rs, argValues(fn.params, fn.getArgs, keys))
        ELSE <<done[1], <<[sql |-> sql, bound |-> bound]>>, done[2]>>

\* an update that binds the key values before the SET values
callUpdateKeysFirst(fn, getFn, table, rs, keys, rec) ==
    LET eligible(col) == rec[col] # undefined /\ ~includes(fn.pkNames, col)
        updateColumns == SelectSeq(fn.columns, eligible)
        updateValues == [k \in DOMAIN updateColumns |-> rec[updateColumns[k]]]
        sql == updateSql(fn.table, updateColumns, fn.where)
        bound == argValues(fn.params, fn.keyArgs, keys) \o updateValues
        done == execute(table, rs, sql, bound)
    IN  IF Len(updateColumns) = 0
        THEN callGet(getFn, table, rs, argValues(fn.params, fn.getArgs, keys))
        ELSE <<done[1], <<[sql |-> sql, bound |-> bound]>>, done[2]>>

\* update<Type>(db, ...keys, record); getFn is the unit's get<Type>
callUpdate(fn, getFn, table, rs, keys, rec) ==
    LET eligible(col) == rec[col] # undefined /\ ~includes(fn.pkNames, col)
        updateColumns == SelectSeq(fn.columns, eligible)
        updateValues == [k \in DOMAIN updateColumns |-> rec[updateColumns[k]]]
        sql == updateSql(fn.table, updateColumns, fn.where)
        bound == updateValues \o argValues(fn.params, fn.keyArgs, keys)
        done == execute(table, rs, sql, bound)
    IN  IF Len(updateColumns) = 0
        THEN callGet(getFn, table, rs, argValues(fn.params, fn.getArgs, keys))
        ELSE <<done[1], <<[sql |-> sql, bound |-> bound]>>, done[2]>>

\* delete<Type>(db, ...keys)
callDelete(fn, table, rs, keys) ==
    LET sql == deleteSql(fn.table, fn.where)
        bound == argValues(fn.params, fn.args, keys)
        done == execute(table, rs, sql, bound)
    IN  <<done[1], <<[sql |-> sql, bound |-> bound]>>, done[2]>>

-----------------------------------------------------------------------------
(* Call time: a caller uses the unit generated for a one-table schema *)

\* generateInterfaces on a whole catalog: the for-loop run to its end
RECURSIVE generateInterfacesFrom(_, _, _)
generateInterfacesFrom(ts, k, m) ==
    IF k > Len(ts) THEN m
    ELSE generateInterfacesFrom(ts, k + 1, mapSet(m, ts[k].name, interfaceContent(ts[k])))

generateInterfaces(ts) == generateInterfacesFrom(ts, 1, <<>>)

\* generateFiles on a whole Map: every table's file, then index.ts
RECURSIVE generateFilesFrom(_, _, _)
generateFilesFrom(m, k, fs) ==
    IF k > Len(m) THEN writeFileSync(fs, INDEX_TS, indexContent(m))
    ELSE generateFilesFrom(m, k + 1, writeFileSync(fs, fileNameOf(m[k][1]), m[k][2]))

generateFiles(m) == generateFilesFrom(m, 1, NoFiles)

\* the table, the unit and its functions the caller works with
theTable == tables[1]
theUnit == mapGet(interfaces, theTable.name)
hasFunction(kind) == \E k \in DOMAIN theUnit.functions : theUnit.functions[k].kind = kind
function(kind) ==
    theUnit.functions[CHOOSE k \in DOMAIN theUnit.functions : theUnit.functions[k].kind = kind]

colNamesOf(table) == {table.columns[k].name : k \in DOMAIN table.columns}
Records == [colNamesOf(theTable) -> FieldValues]
Keys == [1..Len(function("get").params) -> KeyValues]

called(fnKind, keys, rec, done) ==
    /\ last = NoCall
    /\ Len(done[1]) <= MaxRows
    /\ rows' = done[1]
    /\ last' = [fn |-> fnKind, keys |-> keys, rec |-> rec, before |-> rows,
                statements |-> done[2], result |-> done[3]]
    /\ UNCHANGED <<runVars, mapVars>>

InitCall ==
    /\ pc = "exit"
    /\ args = <<A_SCHEMA_FILE, P_SCHEMA, A_OUTPUT_DIR, P_OUT>>
    /\ \E cs \in AllColumnLists : tables = catalogOf(<<N_A_B>>, <<cs>>)
    /\ loopIdx = Len(tables) + 1
    /\ interfaces = generateInterfaces(tables)
    /\ files = generateFiles(interfaces)
    /\ error = "none"
    /\ exitCode = 0
    /\ rows = <<>>
    /\ last = NoCall
    /\ sqliteType = <<>>
    /\ tsType = ""

CallInsert ==
    /\ hasFunction("insert")
    /\ \E rec \in Records :
          called("insert", <<>>, rec, callInsert(function("insert"), theTable, rows, rec))

CallGetAll ==
    /\ hasFunction("getAll")
    /\ called("getAll", <<>>, <<>>, callGetAll(function("getAll"), theTable, rows))

CallGet ==
    /\ hasFunction("get")
    /\ \E keys \in Keys :
          called("get", keys, <<>>, callGet(function("get"), theTable, rows, keys))

CallUpdate ==
    /\ hasFunction("update")
    /\ \E keys \in Keys : \E rec \in Records :
          called("update", keys, rec,
                 callUpdate(function("update"), function("get"), theTable, rows, keys, rec))

CallDelete ==
    /\ hasFunction("delete")
    /\ \E keys \in Keys :
          called("delete", keys, <<>>, callDelete(function("delete"), theTable, rows, keys))

\* the caller is done with the result of the call
Return ==
    /\ last # NoCall
    /\ last' = NoCall
    /\ UNCHANGED <<runVars, rows, mapVars>>

NextCall ==
    \/ Return
    \/ CallInsert
    \/ CallGetAll
    \/ CallGet
    \/ CallUpdate
    \/ CallDelete

SpecCall == InitCall /\ [][NextCall]_vars

-----------------------------------------------------------------------------
(* The type mapper on its own: declared type strings in, TypeScript types out *)

\* every way to write a word in upper and lower case letters
caseVariants(w) ==
    { [k \in DOMAIN w |-> IF k \in S THEN ToLowerChar(w[k]) ELSE ToUpperChar(w[k])] :
        S \in SUBSET DOMAIN w }

TypeWords ==
    { T_INTEGER, T_REAL, T_TEXT, T_BLOB, T_BOOLEAN, T_TIMESTAMP, T_VARCHAR, T_JSONB,
      <<"I","N","T">>, <<"T","E","X","T"," ">>, <<" ","R","E","A","L">>,
      P_CONSTRUCTOR, P_TOSTRING, P_VALUEOF, P_PROTO }

TypeSuffixes ==
    { <<>>, <<"(">>, <<"(","2","5","5",")">>, <<"(","1","0",",","2",")">>, <<" ">>,
      <<"(","T","E","X","T",")">> }

MapAlphabet == {"T", "E", "X", "t", "e", "x", "("}

\* the declared type strings the mapper is run on
TypeInputs ==
    { w \o x : w \in UNION { caseVariants(v) : v \in TypeWords }, x \in TypeSuffixes }
    \cup UNION { [1..n -> MapAlphabet] : n \in 0..MaxLen }

InitMap ==
    /\ pc = "main"
    /\ args = <<>>
    /\ tables = <<>>
    /\ loopIdx = 0
    /\ interfaces = <<>>
    /\ files = NoFiles
    /\ error = "none"
    /\ exitCode = -1
    /\ rows = <<>>
    /\ last = NoCall
    /\ sqliteType \in TypeInputs
    /\ tsType = ""

\* a call of mapSqliteTypeToTypescript(sqliteType)
MapType ==
    /\ tsType = ""
    /\ tsType' = mapSqliteTypeToTypescript(sqliteType)
    /\ UNCHANGED <<runVars, callVars, sqliteType>>

NextMap == MapType

SpecMap == InitMap /\ [][NextMap]_vars

-----------------------------------------------------------------------------
(* Claims about the type mapper (SpecMap) *)

\* the text before the first '(' of s (all of s when it has none)
beforeFirstParen(s) ==
    LET n == CHOOSE m \in 0..Len(s) :
                /\ \A j \in 1..m : s[j] # "("
                /\ m = Len(s) \/ s[m + 1] = "("
    IN  SubSeq(s, 1, n)

\* the fixed table of the type mapper
expectedTsType(s) ==
    LET base == toUpperCase(beforeFirstParen(s))
    IN  CASE base = T_INTEGER -> "number | bigint"
          [] base = T_REAL -> "number"
          [] base = T_TEXT -> "string"
          [] base = T_BLOB -> "Uint8Array"
          [] base = T_BOOLEAN -> "number"
          [] base = T_TIMESTAMP -> "string"
          [] OTHER -> "any"

\* C4: the mapper is total and follows the fixed table: the text before the
\* first '(' is uppercased and looked up; the six known base types give their
\* TypeScript type and every other string, the empty one included, gives 'any'.
C4_MapperFollowsTable ==
    tsType # "" =>
        /\ tsType \in {"number | bigint", "number", "string", "Uint8Array", "any"}
        /\ tsType = expectedTsType(sqliteType)

\* a lower-case type with a qualifier has been mapped through the table
C4_Witness ==
    /\ sqliteType = <<"b","l","o","b","(","2","5","5",")">>
    /\ tsType = "Uint8Array"

\* C5 as stated: VARCHAR(255) gives string, INTEGER gives the integer-or-bigint
\* union, JSONB gives the fallback type.
C5_Original ==
    tsType # "" =>
        /\ sqliteType = T_VARCHAR_255 => tsType = "string"
        /\ sqliteType = T_INTEGER => tsType = "number | bigint"
        /\ sqliteType = T_JSONB => tsType = "any"

\* C5 amended: VARCHAR(255) gives the fallback type 'any' (its qualifier is
\* ignored, and VARCHAR is not in the table), INTEGER gives 'number | bigint',
\* JSONB gives 'any'.
C5_VarcharFallsBack ==
    tsType # "" =>
        /\ sqliteType = T_VARCHAR_255 => tsType = "any"
        /\ sqliteType = T_VARCHAR => tsType = "any"
        /\ sqliteType = T_INTEGER => tsType = "number | bigint"
        /\ sqliteType = T_JSONB => tsType = "any"

\* VARCHAR(255) has been mapped
C5_Witness == sqliteType = T_VARCHAR_255 /\ tsType = "any"

-----------------------------------------------------------------------------
(* Claims about the generator run (Spec) *)

\* the catalog's table of that name (table names are unique in a schema)
tableNamed(n) == tables[CHOOSE k \in DOMAIN tables : tables[k].name = n]

hasPrimaryKey(table) == \E k \in DOMAIN table.columns : table.columns[k].pk > 0

functionKinds(unit) == [j \in DOMAIN unit.functions |-> unit.functions[j].kind]

\* generateInterfaces has returned
generated == pc = "write" \/ (pc = "exit" /\ exitCode = 0)

\* main has returned normally
succeeded == pc = "exit" /\ exitCode = 0 /\ error = "none" /\ interfaces # <<>>

\* C1: every table of the catalog gets a unit; the unit holds get, update
\* and delete if and only if the table has a column with pk > 0, and a table
\* without one gets the interface, insert and getAll and nothing else.
C1_KeyedFunctionsIffPrimaryKey ==
    /\ generated => \A k \in DOMAIN tables : mapHas(interfaces, tables[k].name)
    /\ \A k \in DOMAIN interfaces :
          LET table == tableNamed(interfaces[k][1])
              kinds == functionKinds(interfaces[k][2])
          IN  /\ hasPrimaryKey(table) => kinds = <<"insert", "getAll", "get", "update", "delete">>
              /\ ~hasPrimaryKey(table) => kinds = <<"insert", "getAll">>

\* a schema with a keyed and a key-less table has been generated
C1_Witness ==
    /\ succeeded
    /\ Len(tables) = 2
    /\ hasPrimaryKey(tables[1])
    /\ ~hasPrimaryKey(tables[2])
    /\ Len(mapGet(interfaces, tables[1].name).functions) = 5
    /\ Len(mapGet(interfaces, tables[2].name).functions) = 2

\* C3: the interface declares exactly one field per column, in column
\* position order, and a field is non-nullable if and only if its column is
\* NOT NULL or part of the primary key.
C3_NullableIffNeitherNotNullNorKey ==
    \A k \in DOMAIN interfaces :
        LET columns == tableNamed(interfaces[k][1]).columns
            fields == interfaces[k][2].fields
        IN  /\ Len(fields) = Len(columns)
            /\ \A j \in DOMAIN columns :
                  /\ columns[j].cid = j - 1
                  /\ fields[j].name = columns[j].name
                  /\ ~fields[j].nullable <=> (columns[j].notnull = 1 \/ columns[j].pk > 0)

\* a unit with a field that is non-nullable only through the key, and a nullable one
C3_Witness ==
    /\ succeeded
    /\ \E k \in DOMAIN interfaces :
          LET columns == tableNamed(interfaces[k][1]).columns
              fields == interfaces[k][2].fields
          IN  /\ \E j \in DOMAIN columns :
                    columns[j].notnull = 0 /\ columns[j].pk > 0 /\ ~fields[j].nullable
              /\ \E j \in DOMAIN columns :
                    columns[j].notnull = 0 /\ columns[j].pk = 0 /\ fields[j].nullable

\* C8: when loading the schema fails the run ends with a non-zero exit and
\* has written no file; and in every run a file is written only after the
\* catalog is loaded and the unit of every table is generated.
C8_NoOutputBeforeGeneration ==
    /\ error \in {"readFileSync", "db.exec"} =>
          pc = "exit" /\ exitCode = 1 /\ files = NoFiles
    /\ files # NoFiles =>
          /\ pc \in {"write", "exit"}
          /\ error \notin {"readFileSync", "db.exec"}
          /\ \A k \in DOMAIN tables :
                /\ mapHas(interfaces, tables[k].name)
                /\ mapGet(interfaces, tables[k].name) = interfaceContent(tables[k])

\* the schema failed to load and the run has ended
C8_Witness == error = "db.exec" /\ pc = "exit" /\ exitCode = 1 /\ files = NoFiles

\* two tables whose names differ and whose type names are the same
collide(t, u) == t.name # u.name /\ pascalCase(t.name) = pascalCase(u.name)

\* the output holds the unit generated for this table, under the table's name
unitWritten(table) ==
    /\ (table.name \o TS_EXT) \in DOMAIN files
    /\ files[table.name \o TS_EXT] = interfaceContent(table)

\* C10 as stated: when two table names give the same type name, one unit
\* overwrites the other and the output holds a unit for only one of the two.
C10_Original ==
    succeeded =>
        \A i, j \in DOMAIN tables :
            collide(tables[i], tables[j]) =>
                ~(unitWritten(tables[i]) /\ unitWritten(tables[j]))

\* C10 amended: when two table names give the same type name, no collision
\* is detected and nothing is overwritten: units are keyed and files named by
\* the table name, so the output holds one unit per table, both declaring
\* the same type name, and the manifest exports both.
C10_CollidingTablesKeepTheirUnits ==
    succeeded =>
        \A i, j \in DOMAIN tables :
            collide(tables[i], tables[j]) =>
                /\ unitWritten(tables[i]) /\ unitWritten(tables[j])
                /\ files[tables[i].name \o TS_EXT].typeName
                     = files[tables[j].name \o TS_EXT].typeName
                /\ INDEX_TS \in DOMAIN files
                /\ files[INDEX_TS].exports = <<tables[1].name, tables[2].name>>

\* a_b and a__b, with different columns, have been generated and written
C10_Witness ==
    /\ succeeded
    /\ Len(tables) = 2
    /\ collide(tables[1], tables[2])
    /\ tables[1].columns # tables[2].columns
    /\ Cardinality(DOMAIN files) = 3

-----------------------------------------------------------------------------
(* Claims about the generated functions at call time (SpecCall) *)

keyCount(table) == Cardinality({k \in DOMAIN table.columns : table.columns[k].pk > 0})

\* the key column names by ascending primary-key ordinal
pkOrder(table) ==
    [o \in 1..keyCount(table) |->
        table.columns[CHOOSE k \in DOMAIN table.columns : table.columns[k].pk = o].name]

columnNamed(table, c) ==
    table.columns[CHOOSE k \in DOMAIN table.columns : table.columns[k].name = c]

\* a sequence of column names in column-position order, none twice
inPositionOrder(table, cols) ==
    \A i, j \in DOMAIN cols :
        i < j => columnNamed(table, cols[i]).cid < columnNamed(table, cols[j]).cid

issued(op) == \E k \in DOMAIN last.statements : last.statements[k].sql.op = op

\* C2: get, update and delete take one key parameter per primary-key column,
\* ordered by primary-key ordinal whatever the declaration order; the WHERE
\* clause lists the key columns in that order and the key values are bound
\* in that order.
C2_KeysInOrdinalOrder ==
    /\ \A k \in DOMAIN theUnit.functions :
          LET fn == theUnit.functions[k]
          IN  fn.kind \in {"get", "update", "delete"} =>
                /\ Len(fn.params) = keyCount(theTable)
                /\ names(fn.params) = pkOrder(theTable)
                /\ fn.where = pkOrder(theTable)
    /\ last.fn \in {"get", "update", "delete"} =>
          /\ Len(last.statements) = 1
          /\ LET st == last.statements[1]
                 n == Len(last.keys)
             IN  /\ st.sql.where = pkOrder(theTable)
                 /\ Len(st.bound) >= n
                 /\ SubSeq(st.bound, Len(st.bound) - n + 1, Len(st.bound)) = last.keys

\* an UPDATE was issued for a two-column key whose ordinals run against the
\* declaration order, with two different key values
C2_Witness ==
    /\ last.fn = "update"
    /\ issued("UPDATE")
    /\ keyCount(theTable) = 2
    /\ columnNamed(theTable, pkOrder(theTable)[1]).cid > columnNamed(theTable, pkOrder(theTable)[2]).cid
    /\ last.keys[1] # last.keys[2]

\* the partial record sets no column outside the primary key
noEligibleColumn(table, rec) ==
    \A k \in DOMAIN table.columns :
        table.columns[k].pk = 0 => rec[table.columns[k].name] = undefined

\* the row of rs whose key columns hold the key values, taken in ordinal order
rowByKey(table, rs, keys) ==
    LET hit(row) == \A o \in 1..keyCount(table) : row[pkOrder(table)[o]] = keys[o]
        hits == SelectSeq(rs, hit)
    IN  IF hits = <<>> THEN nullResult ELSE rowResult(hits[1])

\* C6: an update whose partial record has no value other than undefined for
\* any non-key column issues no UPDATE, leaves the rows as they were, and
\* returns what get-by-key returns for the same keys.
C6_UpdateWithoutEligibleColumnIsGet ==
    (last.fn = "update" /\ noEligibleColumn(theTable, last.rec)) =>
        /\ ~issued("UPDATE")
        /\ rows = last.before
        /\ last.result = rowByKey(theTable, last.before, last.keys)

\* an update holding only a primary-key field returned the current row
C6_Witness ==
    /\ last.fn = "update"
    /\ noEligibleColumn(theTable, last.rec)
    /\ \E c \in DOMAIN last.rec : last.rec[c] # undefined
    /\ last.result.kind = "row"
    /\ Len(theTable.columns) > keyCount(theTable)

\* C7: an insert lists exactly the columns whose value in the record is not
\* undefined (null included), in column-position order, with one placeholder
\* and one bound value per listed column, the i-th value being the record's
\* value for the i-th listed column.
C7_InsertListsPresentColumns ==
    last.fn = "insert" =>
        /\ Len(last.statements) = 1
        /\ LET st == last.statements[1]
               cols == st.sql.columns
           IN  /\ st.sql.op = "INSERT"
               /\ \A c \in DOMAIN last.rec : includes(cols, c) <=> last.rec[c] # undefined
               /\ inPositionOrder(theTable, cols)
               /\ st.sql.placeholders = Len(cols)
               /\ Len(st.bound) = Len(cols)
               /\ \A i \in DOMAIN cols : st.bound[i] = last.rec[cols[i]]

\* an insert with a value, a null and an omitted column stored a row
C7_Witness ==
    /\ last.fn = "insert"
    /\ last.result.kind = "row"
    /\ \E c \in DOMAIN last.rec : last.rec[c] = null
    /\ \E c \in DOMAIN last.rec : last.rec[c] = undefined
    /\ \E c \in DOMAIN last.rec : last.rec[c] = "1"

\* C9: an UPDATE statement has no primary-key column in its SET clause,
\* lists the eligible columns in column-position order, and binds the SET
\* values in that order followed by the key values in ordinal order, as many
\* values as the statement has placeholders.
C9_UpdateSetsNonKeyColumns ==
    (last.fn = "update" /\ issued("UPDATE")) =>
        /\ Len(last.statements) = 1
        /\ LET st == last.statements[1]
               cols == st.sql.columns
           IN  /\ \A i \in DOMAIN cols : columnNamed(theTable, cols[i]).pk = 0
               /\ \A c \in DOMAIN last.rec :
                     includes(cols, c) <=>
                        (last.rec[c] # undefined /\ columnNamed(theTable, c).pk = 0)
               /\ inPositionOrder(theTable, cols)
               /\ st.sql.where = pkOrder(theTable)
               /\ st.bound = [i \in DOMAIN cols |-> last.rec[cols[i]]] \o last.keys
               /\ st.sql.placeholders = Len(cols) + keyCount(theTable)
               /\ Len(st.bound) = st.sql.placeholders

\* an update that supplies a key field and two other fields changed a row
C9_Witness ==
    /\ last.fn = "update"
    /\ issued("UPDATE")
    /\ \E c \in DOMAIN last.rec :
          last.rec[c] # undefined /\ columnNamed(theTable, c).pk > 0
    /\ Len(last.statements[1].sql.columns) = 2
    /\ last.result.kind = "row"
    /\ rows # last.before

====
